---- MODULE Spec2Model ----
(***************************************************************************)
(* Model of the sale registration transaction of comercial-gestion:        *)
(* registrar_venta (src/models.py) running in concurrent database          *)
(* sessions, together with editar_producto (src/app.py).                   *)
(*                                                                         *)
(* Money is counted in thousandths of a currency unit, so that a price     *)
(* with more than two decimals (a float handed in by a caller) and its     *)
(* storage in a Numeric(10, 2) column are different values.                *)
(*                                                                         *)
(* The database is read-committed: a session reads committed rows, keeps   *)
(* its own inserts and updates in its transaction, and publishes them      *)
(* atomically at commit.  A session's updates of Producto.stock are        *)
(* absolute values (UPDATE ... SET stock = <value computed in Python>).    *)
(***************************************************************************)
EXTENDS Integers, Sequences, FiniteSets, TLC

\* ---------------------------------------------------------------- bounds
MaxLineas == 2        \* longest detalles_productos list of a request
MaxLineasConc == 2    \* the same, for requests that run concurrently
MaxStock == 2         \* largest stock of a product
MaxEdiciones == 1     \* editar_producto requests in one behaviour

\* ------------------------------------------------------------- constants
Centimo == 10         \* one unit of the second decimal, in thousandths

Sesiones == {"s1", "s2"}            \* request threads, one db.session each
ProductoIds == {1, 2}               \* rows of table Producto
IdsPedidos == ProductoIds \cup {3}  \* 3 is an id no Producto row has
ClienteIds == {1}
ClienteUniverso == {1, 2, 3}         \* ids the table Cliente may hold
UsuarioIds == {1}

\* rows of table Usuario written by inicializar_datos (vendedor2, id 3, has
\* the role of vendedor1)
Usuarios ==
    [u \in {1, 2, 4} |->
        IF u = 1 THEN [username |-> "admin", rol |-> "admin"]
        ELSE IF u = 2 THEN [username |-> "vendedor1", rol |-> "vendedor"]
        ELSE [username |-> "consulta1", rol |-> "consulta"]]
Cantidades == {1, 2}                \* quantities a line may ask for

\* price of every product before any edit
PrecioInicial == 1 * Centimo
\* the 'precio' a caller of registrar_venta may put in a line: the initial
\* price of the products, and a float below one cent
PreciosCaller == {PrecioInicial, 4}
\* the price field of the product edit form
PreciosForm == {3 * Centimo}
\* the stock field of the product edit form
StocksForm == {0, MaxStock}

\* ------------------------------------------------------------- helpers
RECURSIVE SumSeq(_)
SumSeq(s) == IF s = <<>> THEN 0 ELSE Head(s) + SumSeq(Tail(s))

SeqsHasta(S, n) == UNION {[1..k -> S] : k \in 0..n}

\* Numeric(10, 2): a value is stored rounded to two decimals
Numeric2(x) ==
    IF x >= 0 THEN ((x + (Centimo \div 2)) \div Centimo) * Centimo
    ELSE 0 - ((((0 - x) + (Centimo \div 2)) \div Centimo) * Centimo)

\* DetalleVenta.subtotal
subtotal(cantidad, precio_unitario) == cantidad * precio_unitario

Linea == [id_producto : IdsPedidos, cant : Cantidades, precio : PreciosCaller]

\* requests of the sequential behaviours
Pedidos == [id_cliente : ClienteIds, id_usuario : UsuarioIds,
            detalles : SeqsHasta(Linea, MaxLineas)]

\* requests of the concurrent behaviours: the caller sends the product
\* price and asks for one unit, or for two units of product 1, of which
\* there is one
LineaConc ==
    {l \in Linea : /\ l.precio = PrecioInicial
                   /\ l.cant = 1 \/ l.id_producto = 1}
PedidosConc == [id_cliente : ClienteIds, id_usuario : UsuarioIds,
                detalles : SeqsHasta(LineaConc, MaxLineasConc)]

SinPedido == [id_cliente |-> 0, id_usuario |-> 0, detalles |-> <<>>]
SinResultado == [status |-> "none", mensaje |-> "none", id_producto |-> 0,
                 solicitado |-> 0, disponible |-> 0, venta_id |-> 0,
                 total_venta |-> 0]

VARIABLES
    db,            \* committed tables: producto (id -> [precio, stock]),
                   \* venta (set of rows), detalle_venta and auditoria (rows
                   \* in primary key order)
    seq_venta,     \* last id_venta handed out by the autoincrement
    pc,            \* per session: position inside registrar_venta
    pedido,        \* per session: arguments of the running call
    idx,           \* per session: index of the running for loop
    sesion,        \* per session: the db.session (identity map, pending rows)
    locales,       \* per session: local variables id_venta, total, producto
    resultado,     \* per session: dict returned by the last call
    antes,         \* per session: the committed tables when the call started
    ediciones,     \* number of editar_producto requests served
    usuario_rol,   \* Usuario.rol of the user whose permissions are asked
    consultas,     \* the tiene_permiso calls made on that user, in order:
                   \* the accion asked and the value returned
    fk,            \* whether the database enforces FOREIGN KEY constraints
                   \* (PostgreSQL does, SQLite as configured does not)
    actual,        \* per request thread: id_usuario of current_user, 0 when
                   \* nobody is logged in
    ruta,          \* per request thread: the customer or product route it
                   \* is serving, with what its session holds
    respuesta,     \* per request thread: outcome of its last route request
    peticiones     \* number of route requests started

vars == <<db, seq_venta, pc, pedido, idx, sesion, locales, resultado, antes,
          ediciones, usuario_rol, consultas, fk, actual, ruta, respuesta,
          peticiones>>

vars_venta == <<db, seq_venta, pc, pedido, idx, sesion, locales, resultado,
                antes, ediciones>>

vars_permisos == <<usuario_rol, consultas>>

vars_config == <<usuario_rol, consultas, fk>>

vars_ruta == <<actual, ruta, respuesta, peticiones>>

vars_app == <<usuario_rol, consultas, fk, actual, ruta, respuesta,
              peticiones>>

\* ------------------------------------------------------------ db.session
SinCargar == [cargado |-> FALSE, stock |-> 0, sucio |-> FALSE,
              escrito |-> FALSE, stock_tx |-> 0]

SesionNueva == [imap |-> [p \in ProductoIds |-> SinCargar],
                venta |-> FALSE,
                detalles |-> <<>>,
                auditorias |-> <<>>]

LocalesNuevos == [id_venta |-> 0, total |-> 0, producto |-> 0]

\* The identity map of a session holds a loaded object weakly: the object
\* stays while the local variable 'producto' of registrar_venta or of
\* nueva_venta refers to it or while it has pending changes; otherwise it
\* may have been collected.
Retenido(t, p) ==
    /\ sesion[t].imap[p].cargado
    /\ \/ locales[t].producto = p
       \/ sesion[t].imap[p].sucio
       \/ ruta[t].producto = p

\* the Producto row p is in the committed table
Existe(p) == p \in ProductoIds /\ db.producto[p].estado = "vivo"

\* the stock a SELECT of session t returns for product p: its own flushed
\* UPDATE when there is one, else the committed row
StockEnBase(t, p) ==
    IF sesion[t].imap[p].escrito THEN sesion[t].imap[p].stock_tx
    ELSE db.producto[p].stock

\* Producto.query.get(p) for an existing row: the cached object when the
\* identity map still has it (acierto), else a SELECT
Lecturas(t, p) ==
    LET cache == [acierto |-> TRUE, stock |-> sesion[t].imap[p].stock]
        base == [acierto |-> FALSE, stock |-> StockEnBase(t, p)]
        bases == IF Existe(p) THEN {base} ELSE {}
    IN IF Retenido(t, p) THEN {cache}
       ELSE IF sesion[t].imap[p].cargado THEN {cache} \cup bases
            ELSE bases

\* Producto.query.get(p) may return None: no row has the id, or the row was
\* deleted and the session no longer holds its object
GetNone(t, p) == p \in ProductoIds => (~Retenido(t, p) /\ ~Existe(p))

\* the UPDATEs a flush of the session sends all find their row
FlushPosible(s) == \A p \in ProductoIds : s.imap[p].sucio => Existe(p)

\* the Cliente row c is in the committed table
ClienteExiste(c) == c \in ClienteUniverso /\ db.cliente[c].estado = "vivo"

\* the INSERT of a Venta passes the FOREIGN KEY checks of the database
ClavesForaneasVenta(ped) ==
    fk => (ClienteExiste(ped.id_cliente) /\ ped.id_usuario \in DOMAIN Usuarios)

\* auditoria_producto_update: the after_update listener of Producto
AuditoriaProductoUpdate(p) ==
    [tabla |-> "Producto", accion |-> "UPDATE", id_registro |-> p,
     usuario_sql |-> "system", datos |-> <<p, 0>>]

\* the ids of a set of products in increasing order
RECURSIVE EnOrden(_)
EnOrden(S) ==
    IF S = {} THEN <<>>
    ELSE LET m == CHOOSE x \in S : \A y \in S : x <= y
         IN <<m>> \o EnOrden(S \ {m})

\* a plausible slip: no after_update listener is registered
FlushSinListener(s) ==
    [s EXCEPT
        !.imap = [p \in ProductoIds |->
                     IF s.imap[p].sucio
                     THEN [s.imap[p] EXCEPT !.sucio = FALSE,
                                            !.escrito = TRUE,
                                            !.stock_tx = s.imap[p].stock]
                     ELSE s.imap[p]]]

\* session.flush(): the UPDATE of every changed Producto is sent inside the
\* transaction and the listener adds one Auditoria row for each of them
Flush(s) ==
    LET ps == EnOrden({p \in ProductoIds : s.imap[p].sucio}) IN
    [s EXCEPT
        !.imap = [p \in ProductoIds |->
                     IF s.imap[p].sucio
                     THEN [s.imap[p] EXCEPT !.sucio = FALSE,
                                            !.escrito = TRUE,
                                            !.stock_tx = s.imap[p].stock]
                     ELSE s.imap[p]],
        !.auditorias = s.auditorias
            \o [k \in 1..Len(ps) |-> AuditoriaProductoUpdate(ps[k])]]

\* the session after Producto.query.get(p) gave the reading l: a SELECT
\* autoflushes the session first
TrasGet(t, p, l) ==
    LET s == IF l.acierto THEN sesion[t] ELSE Flush(sesion[t]) IN
    [s EXCEPT !.imap[p].cargado = TRUE, !.imap[p].stock = l.stock]

ResultadoError(mensaje, p, solicitado, disponible) ==
    [status |-> "error", mensaje |-> mensaje, id_producto |-> p,
     solicitado |-> solicitado, disponible |-> disponible,
     venta_id |-> 0, total_venta |-> 0]

ResultadoExito(id_venta, total) ==
    [status |-> "success", mensaje |-> "registrada", id_producto |-> 0,
     solicitado |-> 0, disponible |-> 0,
     venta_id |-> id_venta, total_venta |-> total]

\* ------------------------------------------------------- registrar_venta
\* a request thread enters registrar_venta with db.session as its caller
\* left it
Entrar(t, ped, s) ==
    /\ pc[t] = "idle"
    /\ pedido' = [pedido EXCEPT ![t] = ped]
    /\ sesion' = [sesion EXCEPT ![t] = s]
    /\ locales' = [locales EXCEPT ![t] = LocalesNuevos]
    /\ resultado' = [resultado EXCEPT ![t] = SinResultado]
    /\ antes' = [antes EXCEPT ![t] = db]
    /\ idx' = [idx EXCEPT ![t] = 1]
    /\ pc' = [pc EXCEPT ![t] = IF ped.detalles = <<>> THEN "insertar"
                                ELSE "verificar"]
    /\ UNCHANGED <<db, seq_venta, ediciones>>
    /\ UNCHANGED vars_config

\* a request thread enters registrar_venta with a fresh session
Llamar(t, ped) == Entrar(t, ped, SesionNueva)

\* the function returns: its local variables are gone
Retornar(t, res) ==
    /\ resultado' = [resultado EXCEPT ![t] = res]
    /\ locales' = [locales EXCEPT ![t] = LocalesNuevos]
    /\ idx' = [idx EXCEPT ![t] = 1]
    /\ pc' = [pc EXCEPT ![t] = "done"]

\* a plausible slip: the not-found error does not say which product
VerificarNoEncontradoSinId(t) ==
    LET d == pedido[t].detalles[idx[t]] IN
    /\ pc[t] = "verificar"
    /\ GetNone(t, d.id_producto)
    /\ Retornar(t, ResultadoError("no encontrado", 0, 0, 0))
    /\ UNCHANGED <<db, seq_venta, pedido, sesion, antes, ediciones>>
    /\ UNCHANGED vars_app

\* step 1, one iteration of the loop: the product of the line does not exist
VerificarNoEncontrado(t) ==
    LET d == pedido[t].detalles[idx[t]] IN
    /\ pc[t] = "verificar"
    /\ GetNone(t, d.id_producto)
    /\ Retornar(t, ResultadoError("no encontrado", d.id_producto, 0, 0))
    /\ UNCHANGED <<db, seq_venta, pedido, sesion, antes, ediciones>>
    /\ UNCHANGED vars_app

\* a plausible slip: the comparison of step 1 off by one
StockInsuficienteFlojo(stock, cant) == stock + 1 < cant

\* the comparison of step 1
StockInsuficiente(stock, cant) == stock < cant

\* step 1, one iteration of the loop: the product exists
VerificarStock(t) ==
    LET d == pedido[t].detalles[idx[t]]
        p == d.id_producto IN
    /\ pc[t] = "verificar"
    /\ p \in ProductoIds
    /\ \E l \in Lecturas(t, p) :
        /\ sesion' = [sesion EXCEPT ![t] = TrasGet(t, p, l)]
        /\ IF StockInsuficiente(l.stock, d.cant)
           THEN Retornar(t, ResultadoError("stock insuficiente", p, d.cant,
                                           l.stock))
           ELSE /\ resultado' = resultado
                /\ locales' = [locales EXCEPT ![t].producto = p]
                /\ IF idx[t] < Len(pedido[t].detalles)
                   THEN /\ idx' = [idx EXCEPT ![t] = idx[t] + 1]
                        /\ pc' = pc
                   ELSE /\ idx' = [idx EXCEPT ![t] = 1]
                        /\ pc' = [pc EXCEPT ![t] = "insertar"]
    /\ UNCHANGED <<db, seq_venta, pedido, antes, ediciones>>
    /\ UNCHANGED vars_app

\* a plausible slip: step 2 commits the header instead of flushing it
InsertarVentaConCommit(t) ==
    /\ pc[t] = "insertar"
    /\ ClavesForaneasVenta(pedido[t])
    /\ seq_venta' = seq_venta + 1
    /\ db' = [db EXCEPT !.venta = @ \cup
                  {[id_venta |-> seq_venta + 1,
                    id_cliente |-> pedido[t].id_cliente,
                    id_usuario |-> pedido[t].id_usuario, total |-> 0]}]
    /\ sesion' = [sesion EXCEPT ![t].venta = TRUE]
    /\ locales' = [locales EXCEPT ![t].id_venta = seq_venta + 1,
                                  ![t].total = 0]
    /\ pc' = [pc EXCEPT ![t] = "detalles"]
    /\ UNCHANGED <<pedido, idx, resultado, antes, ediciones>>
    /\ UNCHANGED vars_app

\* step 2: the Venta header is added and flushed, which draws its id_venta
InsertarVenta(t) ==
    /\ pc[t] = "insertar"
    /\ ClavesForaneasVenta(pedido[t])
    /\ seq_venta' = seq_venta + 1
    /\ sesion' = [sesion EXCEPT ![t].venta = TRUE]
    /\ locales' = [locales EXCEPT ![t].id_venta = seq_venta + 1,
                                  ![t].total = 0]
    /\ pc' = [pc EXCEPT ![t] = "detalles"]
    /\ UNCHANGED <<db, pedido, idx, resultado, antes, ediciones>>
    /\ UNCHANGED vars_app

\* the price a DetalleVenta row is created with
PrecioDetalle(d) == d.precio

\* the DetalleVenta object built for one line of the request
NuevoDetalle(id_venta, d) ==
    [id_venta |-> id_venta, id_producto |-> d.id_producto,
     cantidad |-> d.cant, precio_unitario |-> PrecioDetalle(d)]

\* the running total after the lines of the request
TotalAcumulado(ds) ==
    SumSeq([k \in 1..Len(ds) |->
               subtotal(ds[k].cantidad, ds[k].precio_unitario)])

\* steps 3 and 4: one DetalleVenta per line, total accumulated from their
\* subtotals and assigned to venta.total
InsertarDetalles(t) ==
    LET ds == [k \in 1..Len(pedido[t].detalles) |->
                  NuevoDetalle(locales[t].id_venta, pedido[t].detalles[k])]
    IN
    /\ pc[t] = "detalles"
    /\ sesion' = [sesion EXCEPT ![t].detalles = ds]
    /\ locales' = [locales EXCEPT ![t].total = TotalAcumulado(ds)]
    /\ idx' = [idx EXCEPT ![t] = 1]
    /\ pc' = [pc EXCEPT ![t] = IF ds = <<>> THEN "auditoria" ELSE "stock"]
    /\ UNCHANGED <<db, seq_venta, pedido, resultado, antes,
                   ediciones>>
    /\ UNCHANGED vars_app

\* the stock written by step 5 for one line
StockDescontado(stock, cant) == stock - cant

\* step 5, one iteration of the loop
ActualizarStock(t) ==
    LET d == pedido[t].detalles[idx[t]]
        p == d.id_producto IN
    /\ pc[t] = "stock"
    /\ \E l \in Lecturas(t, p) :
        /\ l.acierto \/ FlushPosible(sesion[t])
        /\ sesion' = [sesion EXCEPT ![t] =
                         [TrasGet(t, p, l) EXCEPT
                             !.imap[p].stock = StockDescontado(l.stock, d.cant),
                             !.imap[p].sucio = TRUE]]
    /\ locales' = [locales EXCEPT ![t].producto = p]
    /\ IF idx[t] < Len(pedido[t].detalles)
       THEN /\ idx' = [idx EXCEPT ![t] = idx[t] + 1]
            /\ pc' = pc
       ELSE /\ idx' = [idx EXCEPT ![t] = 1]
            /\ pc' = [pc EXCEPT ![t] = "auditoria"]
    /\ UNCHANGED <<db, seq_venta, pedido, resultado, antes,
                   ediciones>>
    /\ UNCHANGED vars_app

\* a plausible slip: the audit row is built before the Venta has its id
AuditoriaVentaSinId(id_venta, id_cliente, total) ==
    [tabla |-> "Venta", accion |-> "INSERT", id_registro |-> 0,
     usuario_sql |-> "system", datos |-> <<id_cliente, total>>]

\* the Auditoria object of step 6
AuditoriaVenta(id_venta, id_cliente, total) ==
    [tabla |-> "Venta", accion |-> "INSERT", id_registro |-> id_venta,
     usuario_sql |-> "system", datos |-> <<id_cliente, total>>]

\* step 6
RegistrarAuditoria(t) ==
    /\ pc[t] = "auditoria"
    /\ sesion' = [sesion EXCEPT ![t].auditorias =
                     Append(@, AuditoriaVenta(locales[t].id_venta,
                                              pedido[t].id_cliente,
                                              Numeric2(locales[t].total)))]
    /\ pc' = [pc EXCEPT ![t] = "commit"]
    /\ UNCHANGED <<db, seq_venta, pedido, idx, locales, resultado, antes, ediciones>>
    /\ UNCHANGED vars_app

\* the rows a session publishes when it commits
VentaPendiente(t) ==
    [id_venta |-> locales[t].id_venta, id_cliente |-> pedido[t].id_cliente,
     id_usuario |-> pedido[t].id_usuario,
     total |-> Numeric2(locales[t].total)]

DetallesPendientes(t) ==
    [k \in 1..Len(sesion[t].detalles) |->
        [sesion[t].detalles[k] EXCEPT
            !.precio_unitario = Numeric2(sesion[t].detalles[k].precio_unitario)]]

\* commit flushes until the session is clean: the listener rows added by
\* the flush are inserted by the next one
AuditoriasPendientes(t) == Flush(sesion[t]).auditorias

ProductoTrasCommit(t) ==
    LET s == Flush(sesion[t]) IN
    [p \in ProductoIds |->
        IF s.imap[p].escrito
        THEN [db.producto[p] EXCEPT !.stock = s.imap[p].stock_tx]
        ELSE db.producto[p]]

\* session.commit(): the pending rows and changes of the session are
\* published as one unit
TrasCommit(t) ==
    [producto |-> ProductoTrasCommit(t),
     cliente |-> db.cliente,
     venta |-> IF sesion[t].venta THEN db.venta \cup {VentaPendiente(t)}
               ELSE db.venta,
     detalle_venta |-> db.detalle_venta \o DetallesPendientes(t),
     auditoria |-> db.auditoria \o AuditoriasPendientes(t)]

\* a plausible slip: the except branch publishes what the session holds
TrasRollbackConEfecto(t) == TrasCommit(t)

\* session.rollback(): the pending rows and changes of the session are
\* dropped, the committed tables stay as they are
TrasRollback(t) == db

\* step 7: the transaction commits and the call returns 'success'
Commit(t) ==
    /\ pc[t] = "commit"
    /\ FlushPosible(sesion[t])
    /\ db' = TrasCommit(t)
    /\ sesion' = [sesion EXCEPT ![t] = SesionNueva]
    /\ Retornar(t, ResultadoExito(locales[t].id_venta, locales[t].total))
    /\ UNCHANGED <<seq_venta, pedido, antes, ediciones>>
    /\ UNCHANGED vars_app

\* str(e) of the exceptions the persistence layer raises
Causas == {"IntegrityError", "OperationalError"}

\* the 'mensaje' of the except branch
MensajeExcepcion(e) == "Error al registrar venta: " \o e

MensajesExcepcion == {MensajeExcepcion(e) : e \in Causas}

\* except Exception: a statement of steps 2-7 raises (constraint violation,
\* lock timeout, deadlock, lost connection); the session is rolled back
Excepcion(t) ==
    /\ pc[t] \in {"insertar", "detalles", "stock", "auditoria", "commit"}
    /\ db' = TrasRollback(t)
    /\ sesion' = [sesion EXCEPT ![t] = SesionNueva]
    /\ \E e \in Causas :
          Retornar(t, ResultadoError(MensajeExcepcion(e), 0, 0, 0))
    /\ UNCHANGED <<seq_venta, pedido, antes, ediciones>>
    /\ UNCHANGED vars_app

\* ------------------------------------------------------- editar_producto
\* a plausible slip: the edit also rewrites the price of the product's
\* existing line items
editar_producto_en_cascada(p, precio, stock) ==
    /\ ediciones < MaxEdiciones
    /\ ediciones' = ediciones + 1
    /\ db' = [db EXCEPT !.producto[p].precio = Numeric2(precio),
                        !.producto[p].stock = stock,
                        !.auditoria = Append(@, AuditoriaProductoUpdate(p)),
                        !.detalle_venta =
                            [k \in 1..Len(@) |->
                                IF @[k].id_producto = p
                                THEN [@[k] EXCEPT
                                         !.precio_unitario = Numeric2(precio)]
                                ELSE @[k]]]
    /\ UNCHANGED <<seq_venta, pc, pedido, idx, sesion, locales, resultado,
                   antes>>
    /\ UNCHANGED vars_config

\* POST of the product edit form: price and stock are overwritten and
\* committed; the after_update listener adds its audit row
editar_producto(p, precio, stock) ==
    /\ ediciones < MaxEdiciones
    /\ ediciones' = ediciones + 1
    /\ db' = [db EXCEPT !.producto[p].precio = Numeric2(precio),
                        !.producto[p].stock = stock,
                        !.auditoria = Append(@, AuditoriaProductoUpdate(p))]
    /\ UNCHANGED <<seq_venta, pc, pedido, idx, sesion, locales, resultado,
                   antes>>
    /\ UNCHANGED vars_config

\* ----------------------------------------------------------- behaviours
TablasIniciales ==
    [producto |-> [p \in ProductoIds |->
                      [precio |-> PrecioInicial,
                       stock |-> IF p = 1 THEN 1 ELSE MaxStock,
                       estado |-> "vivo"]],
     cliente |-> [c \in ClienteUniverso |->
                     IF c \in ClienteIds
                     THEN [estado |-> "vivo", dni |-> "71234567"]
                     ELSE [estado |-> "libre", dni |-> ""]],
     venta |-> {},
     detalle_venta |-> <<>>,
     auditoria |-> <<>>]

\* no route request is being served
SinRuta == [nombre |-> "none", id |-> 0, dni |-> "", fase |-> "none",
            producto |-> 0, lineas |-> <<>>]

InitRutas ==
    /\ actual = [t \in Sesiones |-> 0]
    /\ ruta = [t \in Sesiones |-> SinRuta]
    /\ respuesta = [t \in Sesiones |-> "none"]
    /\ peticiones = [t \in Sesiones |-> 0]

InitLlamadas ==
    /\ seq_venta = 0
    /\ pc = [t \in Sesiones |-> "idle"]
    /\ pedido = [t \in Sesiones |-> SinPedido]
    /\ idx = [t \in Sesiones |-> 1]
    /\ sesion = [t \in Sesiones |-> SesionNueva]
    /\ locales = [t \in Sesiones |-> LocalesNuevos]
    /\ resultado = [t \in Sesiones |-> SinResultado]
    /\ ediciones = 0

InitVentas ==
    /\ db = TablasIniciales
    /\ antes = [t \in Sesiones |-> TablasIniciales]
    /\ InitLlamadas

\* the sale behaviours ask no permission
Init ==
    /\ InitVentas
    /\ usuario_rol = "vendedor"
    /\ consultas = <<>>
    /\ fk = FALSE
    /\ InitRutas

Paso(t) ==
    \/ VerificarNoEncontrado(t)
    \/ VerificarStock(t)
    \/ InsertarVenta(t)
    \/ InsertarDetalles(t)
    \/ ActualizarStock(t)
    \/ RegistrarAuditoria(t)
    \/ Commit(t)
    \/ Excepcion(t)

\* one request thread serving a sale request while other threads serve
\* product edit requests
Next ==
    \/ \E ped \in Pedidos : Llamar("s1", ped) /\ UNCHANGED vars_ruta
    \/ Paso("s1")
    \/ \E p \in ProductoIds, precio \in PreciosForm, stock \in StocksForm :
          editar_producto(p, precio, stock) /\ UNCHANGED vars_ruta

Spec == Init /\ [][Next]_vars

\* two request threads, each serving one sale request, at the same time or
\* one after the other
NextConc ==
    \/ \E t \in Sesiones, ped \in PedidosConc :
          Llamar(t, ped) /\ UNCHANGED vars_ruta
    \/ \E t \in Sesiones : Paso(t)

SpecConc == Init /\ [][NextConc]_vars

\* the quantities of a caller that does not filter its lines
CantidadesSinFiltro == {-1, 0, 1}

LineaSinFiltro ==
    [id_producto : IdsPedidos, cant : CantidadesSinFiltro,
     precio : {PrecioInicial}]

PedidosSinFiltro ==
    [id_cliente : ClienteIds, id_usuario : UsuarioIds,
     detalles : SeqsHasta(LineaSinFiltro, MaxLineas)]

\* one request thread serving a sale request whose lines were not filtered
NextSinFiltro ==
    \/ \E ped \in PedidosSinFiltro : Llamar("s1", ped) /\ UNCHANGED vars_ruta
    \/ Paso("s1")

SpecSinFiltro == Init /\ [][NextSinFiltro]_vars

\* ----------------------------------------------------- Usuario.tiene_permiso
MaxConsultas == 2

\* values of the column Usuario.rol: the three roles of the table and others
Roles == {"admin", "vendedor", "consulta", "supervisor", "Admin", ""}

\* values of the argument accion: the seven of the table and others
Acciones == {"crear", "leer", "actualizar", "eliminar", "ventas", "reportes",
             "actualizar_cliente", "exportar", ""}

\* the dict of tiene_permiso
permisos ==
    [admin |-> <<"crear", "leer", "actualizar", "eliminar", "ventas",
                 "reportes">>,
     vendedor |-> <<"leer", "ventas", "actualizar_cliente">>,
     consulta |-> <<"leer", "reportes">>]

\* x in lista
EnLista(x, lista) == \E k \in DOMAIN lista : lista[k] = x

\* a plausible slip: a role outside the table gets the permissions of the
\* 'consulta' role
tiene_permiso_rol_por_defecto(rol, accion) ==
    EnLista(accion, IF rol \in DOMAIN permisos THEN permisos[rol]
                    ELSE permisos["consulta"])

\* accion in permisos.get(self.rol, [])
tiene_permiso(rol, accion) ==
    EnLista(accion, IF rol \in DOMAIN permisos THEN permisos[rol] ELSE <<>>)

\* current_user.tiene_permiso(accion) is evaluated
ConsultarPermiso(accion) ==
    /\ Len(consultas) < MaxConsultas
    /\ consultas' = Append(consultas,
                           [accion |-> accion,
                            permitido |-> tiene_permiso(usuario_rol, accion)])
    /\ UNCHANGED <<usuario_rol, fk, vars_venta, vars_ruta>>

InitPermisos ==
    /\ InitVentas
    /\ usuario_rol \in Roles
    /\ consultas = <<>>
    /\ fk = FALSE
    /\ InitRutas

NextPermisos == \E accion \in Acciones : ConsultarPermiso(accion)

SpecPermisos == InitPermisos /\ [][NextPermisos]_vars

\* ------------------------------------------------------------ app.py routes
MaxPeticiones == 2

\* values of the form field dni: the dni of the first customer and a new one
Dnis == {"71234567", "40000001"}

\* the login form: the id of the user whose credentials it carries, 0 when
\* the username or the password is wrong
Credenciales == DOMAIN Usuarios \cup {0}

CantidadesForm == {0, 1}

\* values of the field id_producto of the sale form: the first product and
\* an id no Producto row has
ProductosForm == {1, 3}

\* values of the field id_cliente of the sale form: the first customer and
\* an id that is free until a customer is created
ClientesForm == {1, 2}

\* one (id_producto, cantidad) pair of the sale form
LineaForm == [id_producto : ProductosForm, cantidad : CantidadesForm]

MaxLineasForm == 2
MaxLineasCarrera == 2

\* the POST of the sale form
Formularios == [id_cliente : ClientesForm,
                lineas : SeqsHasta(LineaForm, MaxLineasForm)]

\* the sale forms of the concurrent behaviours: every quantity is positive
FormulariosCarrera ==
    [id_cliente : ClientesForm,
     lineas : SeqsHasta({l \in LineaForm : l.cantidad > 0},
                        MaxLineasCarrera)]

\* the request thread is between two requests
Libre(t) == pc[t] \in {"idle", "done"} /\ ruta[t].fase = "none"

\* the view returns: flash and redirect, render, or an error page
Responder(t, nombre, r) ==
    /\ respuesta' = [respuesta EXCEPT ![t] = r]
    /\ ruta' = [ruta EXCEPT ![t] = [SinRuta EXCEPT !.nombre = nombre]]

\* a response that writes nothing
ResponderSinCambios(t, nombre, r) ==
    /\ Responder(t, nombre, r)
    /\ UNCHANGED <<vars_venta, vars_config, actual>>

\* a response that writes nothing and is about customer id and dni
Rechazar(t, nombre, id, dni, r) ==
    /\ respuesta' = [respuesta EXCEPT ![t] = r]
    /\ ruta' = [ruta EXCEPT ![t] = [SinRuta EXCEPT !.nombre = nombre,
                                                   !.id = id, !.dni = dni]]
    /\ UNCHANGED <<vars_venta, vars_config, actual>>

\* the view returns from a later step of the request
Terminar(t, r) ==
    /\ respuesta' = [respuesta EXCEPT ![t] = r]
    /\ ruta' = [ruta EXCEPT ![t].fase = "none"]

\* the view goes on in a later step of the same request
Seguir(t, nombre, id, dni, fase) ==
    /\ ruta' = [ruta EXCEPT ![t] = [SinRuta EXCEPT !.nombre = nombre,
                                                   !.id = id, !.dni = dni,
                                                   !.fase = fase]]
    /\ respuesta' = [respuesta EXCEPT ![t] = "none"]
    /\ UNCHANGED <<vars_venta, vars_config, actual>>

\* a request arrives at thread t
Llega(t) ==
    /\ Libre(t)
    /\ peticiones' = [peticiones EXCEPT ![t] = @ + 1]

\* flask_login.login_required
login_required(t, nombre, f) ==
    IF actual[t] = 0 THEN ResponderSinCambios(t, nombre, "login") ELSE f

\* a plausible slip: the table keeps the last row only
AuditarSinHistorial(fila) ==
    /\ db' = [db EXCEPT !.auditoria = <<fila>>]
    /\ UNCHANGED <<seq_venta, pc, pedido, idx, sesion, locales, resultado,
                   antes, ediciones>>
    /\ UNCHANGED vars_config

\* db.session.add(auditoria) and db.session.commit() of a view that writes
\* nothing else
Auditar(fila) ==
    /\ db' = [db EXCEPT !.auditoria = Append(@, fila)]
    /\ UNCHANGED <<seq_venta, pc, pedido, idx, sesion, locales, resultado,
                   antes, ediciones>>
    /\ UNCHANGED vars_config

\* a plausible slip: the decorator only asks for a logged-in user
requiere_permiso_sin_tabla(t, nombre, accion, f) ==
    IF actual[t] = 0
    THEN ResponderSinCambios(t, nombre, "login")
    ELSE f

\* the decorator requiere_permiso(accion) around the view f
requiere_permiso(t, nombre, accion, f) ==
    IF actual[t] = 0
    THEN ResponderSinCambios(t, nombre, "login")
    ELSE IF ~tiene_permiso(Usuarios[actual[t]].rol, accion)
         THEN ResponderSinCambios(t, nombre, "index")
         ELSE f

\* the Auditoria rows the views build themselves
AuditoriaUsuario(accion, u) ==
    [tabla |-> "Usuario", accion |-> accion, id_registro |-> u,
     usuario_sql |-> Usuarios[u].username, datos |-> <<u, 0>>]

AuditoriaCliente(accion, id_registro, u) ==
    [tabla |-> "Cliente", accion |-> accion, id_registro |-> id_registro,
     usuario_sql |-> Usuarios[u].username, datos |-> <<id_registro, 0>>]

\* the Auditoria rows of the insert and delete listeners of Producto
AuditoriaProducto(accion, p) ==
    [tabla |-> "Producto", accion |-> accion, id_registro |-> p,
     usuario_sql |-> "system", datos |-> <<p, 0>>]

\* POST /login
login(t, u) ==
    /\ Llega(t)
    /\ IF actual[t] # 0
       THEN ResponderSinCambios(t, "login", "index")
       ELSE IF u = 0
            THEN ResponderSinCambios(t, "login", "rechazado")
            ELSE /\ actual' = [actual EXCEPT ![t] = u]
                 /\ Auditar(AuditoriaUsuario("LOGIN", u))
                 /\ Responder(t, "login", "ok")

\* GET /logout
logout(t) ==
    /\ Llega(t)
    /\ login_required(t, "logout",
          /\ Auditar(AuditoriaUsuario("LOGOUT", actual[t]))
          /\ actual' = [actual EXCEPT ![t] = 0]
          /\ Responder(t, "logout", "ok"))

\* ------------------------------------------------------------- customers
\* Cliente.query.filter_by(dni=dni).first() finds a row
DniRegistrado(dni) ==
    \E c \in ClienteUniverso : ClienteExiste(c) /\ db.cliente[c].dni = dni

\* the UNIQUE index on Cliente.dni refuses the dni for row c
DniDuplicado(dni, c) ==
    \E o \in ClienteUniverso \ {c} :
        ClienteExiste(o) /\ db.cliente[o].dni = dni

\* ids the table Cliente has not given out yet
ClientesLibres == {c \in ClienteUniverso : db.cliente[c].estado = "libre"}

\* the id_cliente the next INSERT draws
NuevoIdCliente == CHOOSE c \in ClientesLibres : \A o \in ClientesLibres : c <= o

\* POST /clientes/nuevo up to db.session.add
nuevo_cliente(t, dni) ==
    /\ Llega(t)
    /\ ClientesLibres # {}
    /\ login_required(t, "nuevo_cliente",
          requiere_permiso(t, "nuevo_cliente", "crear",
             IF DniRegistrado(dni)
             THEN Rechazar(t, "nuevo_cliente", 0, dni, "rechazado")
             ELSE Seguir(t, "nuevo_cliente", 0, dni, "commit")))

\* a plausible slip: the column dni is not declared unique
NuevoClienteCommitSinUnique(t) ==
    /\ ruta[t].nombre = "nuevo_cliente" /\ ruta[t].fase = "commit"
    /\ ClientesLibres # {}
    /\ db' = [db EXCEPT
                 !.cliente[NuevoIdCliente] =
                     [estado |-> "vivo", dni |-> ruta[t].dni],
                 !.auditoria =
                     Append(@, AuditoriaCliente("INSERT", 0, actual[t]))]
    /\ Terminar(t, "ok")
    /\ UNCHANGED <<seq_venta, pc, pedido, idx, sesion, locales, resultado,
                   antes, ediciones, actual, peticiones>>
    /\ UNCHANGED vars_config

\* db.session.commit() of nuevo_cliente: the Cliente and its Auditoria row,
\* built before the flush gave the Cliente its id, are inserted; a dni that
\* was registered meanwhile raises IntegrityError, the 500 handler rolls back
NuevoClienteCommit(t) ==
    /\ ruta[t].nombre = "nuevo_cliente" /\ ruta[t].fase = "commit"
    /\ ClientesLibres # {}
    /\ IF DniDuplicado(ruta[t].dni, 0)
       THEN /\ Terminar(t, "500")
            /\ UNCHANGED db
       ELSE /\ db' = [db EXCEPT
                         !.cliente[NuevoIdCliente] =
                             [estado |-> "vivo", dni |-> ruta[t].dni],
                         !.auditoria =
                             Append(@, AuditoriaCliente("INSERT", 0,
                                                        actual[t]))]
            /\ Terminar(t, "ok")
    /\ UNCHANGED <<seq_venta, pc, pedido, idx, sesion, locales, resultado,
                   antes, ediciones, actual, peticiones>>
    /\ UNCHANGED vars_config

\* POST /clientes/<id>/editar up to the assignments
editar_cliente(t, id, dni) ==
    /\ Llega(t)
    /\ login_required(t, "editar_cliente",
          requiere_permiso(t, "editar_cliente", "actualizar",
             IF ~ClienteExiste(id)
             THEN ResponderSinCambios(t, "editar_cliente", "404")
             ELSE IF dni # db.cliente[id].dni /\ DniRegistrado(dni)
                  THEN Rechazar(t, "editar_cliente", id, dni, "rechazado")
                  ELSE Seguir(t, "editar_cliente", id, dni, "commit")))

\* db.session.commit() of editar_cliente: the UPDATE of the row and the
\* Auditoria row; StaleDataError when the row is gone, IntegrityError when
\* the dni was registered meanwhile
EditarClienteCommit(t) ==
    LET id == ruta[t].id IN
    /\ ruta[t].nombre = "editar_cliente" /\ ruta[t].fase = "commit"
    /\ IF ~ClienteExiste(id) \/ DniDuplicado(ruta[t].dni, id)
       THEN /\ Terminar(t, "500")
            /\ UNCHANGED db
       ELSE /\ db' = [db EXCEPT
                         !.cliente[id].dni = ruta[t].dni,
                         !.auditoria =
                             Append(@, AuditoriaCliente("UPDATE", id,
                                                        actual[t]))]
            /\ Terminar(t, "ok")
    /\ UNCHANGED <<seq_venta, pc, pedido, idx, sesion, locales, resultado,
                   antes, ediciones, actual, peticiones>>
    /\ UNCHANGED vars_config

\* committed Venta rows of a customer
VentasDeCliente(c) == {v \in db.venta : v.id_cliente = c}

\* another transaction has written a Venta of the customer and is open
VentaAbiertaDeCliente(t, c) ==
    \E u \in Sesiones \ {t} :
        /\ pc[u] \notin {"idle", "done"}
        /\ sesion[u].venta
        /\ pedido[u].id_cliente = c

\* POST /clientes/<id>/eliminar up to db.session.delete
eliminar_cliente(t, id) ==
    /\ Llega(t)
    /\ login_required(t, "eliminar_cliente",
          requiere_permiso(t, "eliminar_cliente", "eliminar",
             IF ~ClienteExiste(id)
             THEN ResponderSinCambios(t, "eliminar_cliente", "404")
             ELSE IF VentasDeCliente(id) # {}
                  THEN ResponderSinCambios(t, "eliminar_cliente",
                                           "rechazado")
                  ELSE Seguir(t, "eliminar_cliente", id, "", "cargar")))

\* the flush of the delete loads cliente.ventas to detach them: a Venta
\* found there gets id_cliente NULL, which the NOT NULL column refuses
EliminarClienteCargar(t) ==
    /\ ruta[t].nombre = "eliminar_cliente" /\ ruta[t].fase = "cargar"
    /\ IF VentasDeCliente(ruta[t].id) # {}
       THEN Terminar(t, "500")
       ELSE /\ ruta' = [ruta EXCEPT ![t].fase = "borrar"]
            /\ UNCHANGED respuesta
    /\ UNCHANGED <<vars_venta, vars_config, actual, peticiones>>

\* INSERT of the Auditoria row, DELETE of the Cliente row and COMMIT; the
\* DELETE waits for an open transaction that wrote a Venta of the customer
\* and, where FOREIGN KEYs are enforced, fails if a Venta refers to the row
EliminarClienteBorrar(t) ==
    LET id == ruta[t].id IN
    /\ ruta[t].nombre = "eliminar_cliente" /\ ruta[t].fase = "borrar"
    /\ ~VentaAbiertaDeCliente(t, id)
    /\ IF fk /\ VentasDeCliente(id) # {}
       THEN /\ Terminar(t, "500")
            /\ UNCHANGED db
       ELSE /\ db' = [db EXCEPT
                         !.cliente[id].estado = "borrado",
                         !.auditoria =
                             Append(@, AuditoriaCliente("DELETE", id,
                                                        actual[t]))]
            /\ Terminar(t, "ok")
    /\ UNCHANGED <<seq_venta, pc, pedido, idx, sesion, locales, resultado,
                   antes, ediciones, actual, peticiones>>
    /\ UNCHANGED vars_config

\* -------------------------------------------------------------- products
\* ids the table Producto has not given out yet
ProductosLibres == {p \in ProductoIds : db.producto[p].estado = "libre"}

NuevoIdProducto == CHOOSE p \in ProductosLibres : \A o \in ProductosLibres : p <= o

\* POST /productos/nuevo: the row is inserted and the after_insert listener
\* adds its Auditoria row
nuevo_producto(t, precio, stock) ==
    /\ Llega(t)
    /\ ProductosLibres # {}
    /\ login_required(t, "nuevo_producto",
          requiere_permiso(t, "nuevo_producto", "crear",
             /\ db' = [db EXCEPT
                          !.producto[NuevoIdProducto] =
                              [precio |-> Numeric2(precio), stock |-> stock,
                               estado |-> "vivo"],
                          !.auditoria =
                              Append(@, AuditoriaProducto("INSERT",
                                                          NuevoIdProducto))]
             /\ Responder(t, "nuevo_producto", "ok")
             /\ UNCHANGED <<seq_venta, pc, pedido, idx, sesion, locales,
                            resultado, antes, ediciones, actual>>
             /\ UNCHANGED vars_config))

\* another open transaction has sent an UPDATE of the Producto row
ProductoEscritoPorOtro(t, p) ==
    \E u \in Sesiones \ {t} :
        pc[u] \notin {"idle", "done"} /\ sesion[u].imap[p].escrito

\* POST /productos/<id>/editar
editar_producto_ruta(t, id, precio, stock) ==
    /\ Llega(t)
    /\ login_required(t, "editar_producto",
          requiere_permiso(t, "editar_producto", "actualizar",
             IF ~Existe(id)
             THEN ResponderSinCambios(t, "editar_producto", "404")
             ELSE /\ ~ProductoEscritoPorOtro(t, id)
                  /\ editar_producto(id, precio, stock)
                  /\ Responder(t, "editar_producto", "ok")
                  /\ UNCHANGED actual))

\* committed DetalleVenta rows of a product
DetallesDeProducto(p) ==
    {k \in 1..Len(db.detalle_venta) : db.detalle_venta[k].id_producto = p}

\* POST /productos/<id>/eliminar up to db.session.delete
eliminar_producto(t, id) ==
    /\ Llega(t)
    /\ login_required(t, "eliminar_producto",
          requiere_permiso(t, "eliminar_producto", "eliminar",
             IF ~Existe(id)
             THEN ResponderSinCambios(t, "eliminar_producto", "404")
             ELSE IF DetallesDeProducto(id) # {}
                  THEN ResponderSinCambios(t, "eliminar_producto",
                                           "rechazado")
                  ELSE Seguir(t, "eliminar_producto", id, "", "cargar")))

\* the flush of the delete loads producto.detalles_venta to detach them: a
\* DetalleVenta found there gets id_producto NULL, which the column refuses
EliminarProductoCargar(t) ==
    /\ ruta[t].nombre = "eliminar_producto" /\ ruta[t].fase = "cargar"
    /\ IF DetallesDeProducto(ruta[t].id) # {}
       THEN Terminar(t, "500")
       ELSE /\ ruta' = [ruta EXCEPT ![t].fase = "borrar"]
            /\ UNCHANGED respuesta
    /\ UNCHANGED <<vars_venta, vars_config, actual, peticiones>>

\* DELETE of the Producto row, INSERT of the listener's Auditoria row and
\* COMMIT; the DELETE waits for an open transaction that updated the row
\* and, where FOREIGN KEYs are enforced, fails if a DetalleVenta refers to it
EliminarProductoBorrar(t) ==
    LET id == ruta[t].id IN
    /\ ruta[t].nombre = "eliminar_producto" /\ ruta[t].fase = "borrar"
    /\ ~ProductoEscritoPorOtro(t, id)
    /\ IF fk /\ DetallesDeProducto(id) # {}
       THEN /\ Terminar(t, "500")
            /\ UNCHANGED db
       ELSE /\ db' = [db EXCEPT
                         !.producto[id].estado = "borrado",
                         !.auditoria =
                             Append(@, AuditoriaProducto("DELETE", id))]
            /\ Terminar(t, "ok")
    /\ UNCHANGED <<seq_venta, pc, pedido, idx, sesion, locales, resultado,
                   antes, ediciones, actual, peticiones>>
    /\ UNCHANGED vars_config

\* ----------------------------------------------------------------- sales
\* the loop of nueva_venta over the submitted lines
RECURSIVE detalles_formulario(_)
detalles_formulario(lineas) ==
    IF lineas = <<>> THEN <<>>
    ELSE LET l == Head(lineas) IN
         IF l.cantidad <= 0 THEN detalles_formulario(Tail(lineas))
         ELSE IF Existe(l.id_producto)
              THEN <<[id_producto |-> l.id_producto, cant |-> l.cantidad,
                      precio |-> db.producto[l.id_producto].precio]>>
                   \o detalles_formulario(Tail(lineas))
              ELSE detalles_formulario(Tail(lineas))

\* the value of the local variable 'producto' of nueva_venta after the
\* loop: the Producto of the last line with a positive quantity, 0 for None
RECURSIVE UltimoProducto(_)
UltimoProducto(lineas) ==
    IF lineas = <<>> THEN 0
    ELSE LET l == lineas[Len(lineas)] IN
         IF l.cantidad <= 0 THEN UltimoProducto(SubSeq(lineas, 1, Len(lineas) - 1))
         ELSE IF Existe(l.id_producto) THEN l.id_producto ELSE 0

\* db.session after the loop: the products it read are in the identity map
SesionTrasFormulario(lineas) ==
    [SesionNueva EXCEPT
        !.imap = [p \in ProductoIds |->
                     IF \E k \in 1..Len(lineas) :
                           /\ lineas[k].cantidad > 0
                           /\ lineas[k].id_producto = p
                           /\ Existe(p)
                     THEN [SinCargar EXCEPT !.cargado = TRUE,
                                            !.stock = db.producto[p].stock]
                     ELSE SinCargar]]

\* POST /ventas/nueva up to the call of registrar_venta
nueva_venta(t, form) ==
    /\ Llega(t)
    /\ login_required(t, "nueva_venta",
          requiere_permiso(t, "nueva_venta", "ventas",
             IF detalles_formulario(form.lineas) = <<>>
             THEN /\ respuesta' = [respuesta EXCEPT ![t] = "sin_productos"]
                  /\ ruta' = [ruta EXCEPT ![t] =
                                 [SinRuta EXCEPT
                                     !.nombre = "nueva_venta",
                                     !.id = form.id_cliente,
                                     !.lineas = form.lineas]]
                  /\ UNCHANGED <<vars_venta, vars_config, actual>>
             ELSE /\ Entrar(t, [id_cliente |-> form.id_cliente,
                                id_usuario |-> actual[t],
                                detalles |-> detalles_formulario(form.lineas)],
                            SesionTrasFormulario(form.lineas))
                  /\ respuesta' = [respuesta EXCEPT ![t] = "venta"]
                  /\ ruta' = [ruta EXCEPT ![t] =
                                 [SinRuta EXCEPT
                                     !.nombre = "nueva_venta",
                                     !.id = form.id_cliente,
                                     !.lineas = form.lineas,
                                     !.producto =
                                         UltimoProducto(form.lineas)]]
                  /\ UNCHANGED actual))

\* ------------------------------------------------------ route behaviours
\* a request of any kind arrives at thread t
Peticion(t) ==
    \/ \E u \in Credenciales : login(t, u)
    \/ logout(t)
    \/ \E dni \in Dnis : nuevo_cliente(t, dni)
    \/ \E id \in ClienteUniverso, dni \in Dnis : editar_cliente(t, id, dni)
    \/ \E id \in ClienteUniverso : eliminar_cliente(t, id)
    \/ \E precio \in PreciosForm, stock \in StocksForm :
          nuevo_producto(t, precio, stock)
    \/ \E id \in ProductoIds, precio \in PreciosForm, stock \in StocksForm :
          editar_producto_ruta(t, id, precio, stock)
    \/ \E id \in ProductoIds : eliminar_producto(t, id)
    \/ \E form \in Formularios : nueva_venta(t, form)

\* a request in progress takes its next step
Continuar(t) ==
    \/ NuevoClienteCommit(t)
    \/ EditarClienteCommit(t)
    \/ EliminarClienteCargar(t)
    \/ EliminarClienteBorrar(t)
    \/ EliminarProductoCargar(t)
    \/ EliminarProductoBorrar(t)
    \/ Paso(t)

\* the LOGIN rows of the users that are logged in
RECURSIVE AuditoriasLogin(_)
AuditoriasLogin(us) ==
    IF us = <<>> THEN <<>>
    ELSE IF Head(us) = 0 THEN AuditoriasLogin(Tail(us))
         ELSE <<AuditoriaUsuario("LOGIN", Head(us))>>
              \o AuditoriasLogin(Tail(us))

\* the tables of a shop that still has one product to add, after the users
\* us have logged in
TablasApp(us) ==
    [TablasIniciales EXCEPT !.producto[2].estado = "libre",
                            !.auditoria = AuditoriasLogin(us)]

\* two browsers: in the first nobody is logged in, in the second the
\* administrator
InitApp ==
    /\ actual = [t \in Sesiones |-> IF t = "s2" THEN 1 ELSE 0]
    /\ db = TablasApp(<<actual["s1"], actual["s2"]>>)
    /\ antes = [t \in Sesiones |-> db]
    /\ InitLlamadas
    /\ usuario_rol = "vendedor"
    /\ consultas = <<>>
    /\ fk \in BOOLEAN
    /\ ruta = [t \in Sesiones |-> SinRuta]
    /\ respuesta = [t \in Sesiones |-> "none"]
    /\ peticiones = [t \in Sesiones |-> 0]

\* the first browser sends requests one after another; meanwhile the
\* administrator deletes a product from the second
NextApp ==
    \/ peticiones["s1"] < MaxPeticiones /\ Peticion("s1")
    \/ Continuar("s1")
    \/ peticiones["s2"] = 0 /\ \E id \in ProductoIds :
                                  eliminar_producto("s2", id)
    \/ EliminarProductoCargar("s2")
    \/ EliminarProductoBorrar("s2")

SpecApp == InitApp /\ [][NextApp]_vars

\* the administrator has logged in from two browsers
TablasCarrera ==
    [TablasIniciales EXCEPT !.auditoria = AuditoriasLogin(<<1, 1>>)]

InitCarrera ==
    /\ db = TablasCarrera
    /\ antes = [t \in Sesiones |-> TablasCarrera]
    /\ InitLlamadas
    /\ usuario_rol = "vendedor"
    /\ consultas = <<>>
    /\ fk \in BOOLEAN
    /\ actual = [t \in Sesiones |-> 1]
    /\ ruta = [t \in Sesiones |-> SinRuta]
    /\ respuesta = [t \in Sesiones |-> "none"]
    /\ peticiones = [t \in Sesiones |-> 0]

\* the requests that write rows other requests refer to or compare with
PeticionCarrera(t) ==
    \/ \E dni \in Dnis : nuevo_cliente(t, dni)
    \/ \E id \in ClienteUniverso, dni \in Dnis : editar_cliente(t, id, dni)
    \/ \E id \in ClienteUniverso : eliminar_cliente(t, id)
    \/ \E id \in ProductoIds : eliminar_producto(t, id)
    \/ \E form \in FormulariosCarrera : nueva_venta(t, form)

\* each browser sends one request, at the same time or one after the other
NextCarrera ==
    \E t \in Sesiones :
        \/ peticiones[t] = 0 /\ PeticionCarrera(t)
        \/ Continuar(t)

SpecCarrera == InitCarrera /\ [][NextCarrera]_vars

\* ================================================================ claims
Retorna(t) == pc[t] # "done" /\ pc'[t] = "done"

Linea_(t, k) == pedido[t].detalles[k]
NumLineas(t) == Len(pedido[t].detalles)

\* quantity a request asks of product p, over all its lines
CantidadPedida(t, p) ==
    SumSeq([k \in 1..NumLineas(t) |->
               IF Linea_(t, k).id_producto = p THEN Linea_(t, k).cant ELSE 0])

\* C1: a step in which a call returns 'error' leaves the committed tables
\* (Venta, DetalleVenta, Auditoria rows and every Producto.stock) as they
\* were, and the committed tables change in no step of registrar_venta other
\* than the commit of a call that returns 'success'.
ErrorSinEfecto ==
    [][/\ \A t \in Sesiones :
            (Retorna(t) /\ resultado'[t].status = "error") => db' = db
       /\ db' # db => \E t \in Sesiones :
                         /\ pc[t] = "commit"
                         /\ Retorna(t)
                         /\ resultado'[t].status = "success"]_vars

\* a call failed with an exception after its Venta header had been flushed,
\* and another failed validation for lack of stock
TestigoErrorSinEfecto ==
    /\ seq_venta > 0
    /\ \E t \in Sesiones :
          pc[t] = "done" /\ resultado[t].mensaje \in MensajesExcepcion
    /\ \E t \in Sesiones :
          pc[t] = "done" /\ resultado[t].mensaje = "stock insuficiente"

\* the request of each of the two racing calls
UnaUnidad == <<[id_producto |-> 1, cant |-> 1, precio |-> PrecioInicial]>>

\* both calls started while the stock of product 1 was 1, and both returned
\* without an exception
CasoCarrera ==
    \A t \in Sesiones :
        /\ pc[t] = "done"
        /\ pedido[t].detalles = UnaUnidad
        /\ antes[t].producto[1].stock = 1
        /\ resultado[t].mensaje \notin MensajesExcepcion

\* C2: with stock 1 of product 1, two calls that both started before either
\* committed, each asking for one unit of product 1, and no exception:
\* exactly one returns 'success', the other the insufficient-stock error,
\* and the stock ends at 0.
UnaSolaVentaDeLaUltimaUnidad ==
    CasoCarrera =>
        /\ Cardinality({t \in Sesiones : resultado[t].status = "success"}) = 1
        /\ Cardinality({t \in Sesiones :
                           resultado[t].mensaje = "stock insuficiente"}) = 1
        /\ db.producto[1].stock = 0

\* C3: while stock is changed by registrar_venta only, every Producto.stock
\* stays >= 0.
StockNoNegativo ==
    ediciones = 0 => \A p \in ProductoIds : db.producto[p].stock >= 0

\* C4: a call that returned 'success' returned as total_venta the sum over
\* its lines of cant x the price the product had when the call started.
TotalSegunPrecioDelProducto ==
    \A t \in Sesiones :
        (pc[t] = "done" /\ resultado[t].status = "success") =>
            resultado[t].total_venta =
                SumSeq([k \in 1..NumLineas(t) |->
                           Linea_(t, k).cant
                             * antes[t].producto[Linea_(t, k).id_producto].precio])

\* C5: while no product has been edited, every DetalleVenta row carries the
\* price of the Producto it references.
PrecioUnitarioDelProducto ==
    ediciones = 0 =>
        \A k \in 1..Len(db.detalle_venta) :
            db.detalle_venta[k].precio_unitario =
                db.producto[db.detalle_venta[k].id_producto].precio

\* C6: when a call returns 'success' and no product was edited, every
\* product of the request has its stock of before the call minus the
\* quantity requested for it, and that stock is >= 0.
StockDescuentaLoPedido ==
    [][\A t \in Sesiones :
          (Retorna(t) /\ resultado'[t].status = "success" /\ ediciones' = 0) =>
              \A p \in ProductoIds :
                  CantidadPedida(t, p) > 0 =>
                      /\ db'.producto[p].stock =
                            antes[t].producto[p].stock - CantidadPedida(t, p)
                      /\ db'.producto[p].stock >= 0]_vars

\* sum of the subtotals of the DetalleVenta rows of a Venta
SubtotalesDe(v) ==
    SumSeq([k \in 1..Len(db.detalle_venta) |->
               IF db.detalle_venta[k].id_venta = v.id_venta
               THEN subtotal(db.detalle_venta[k].cantidad,
                             db.detalle_venta[k].precio_unitario)
               ELSE 0])

\* C7: every committed Venta has total equal to the sum of cantidad x
\* precio_unitario over its DetalleVenta rows.
TotalEsSumaDeDetalles ==
    \A v \in db.venta : v.total = SubtotalesDe(v)

\* C8: no step changes an existing DetalleVenta row or an existing Venta
\* row; in particular a product edit leaves recorded prices and totals.
LineasYTotalesFijos ==
    [][/\ Len(db'.detalle_venta) >= Len(db.detalle_venta)
       /\ \A k \in 1..Len(db.detalle_venta) :
             db'.detalle_venta[k] = db.detalle_venta[k]
       /\ \A v \in db.venta : v \in db'.venta]_vars

\* the audit log starts with the sale, so the edit that follows it changed
\* the price of a product of that sale after the sale was committed
TestigoLineasYTotalesFijos ==
    /\ ediciones = 1
    /\ db.venta # {}
    /\ Len(db.detalle_venta) > 0
    /\ db.auditoria[1].tabla = "Venta"
    /\ db.producto[db.detalle_venta[1].id_producto].precio
          # db.detalle_venta[1].precio_unitario
    /\ db.detalle_venta[1].precio_unitario = PrecioInicial

\* C9: a call with an empty line list returns 'error' and creates no Venta,
\* DetalleVenta or Auditoria row (no product edit has added audit rows).
PedidoVacioRechazado ==
    \A t \in Sesiones :
        (pc[t] = "done" /\ ediciones = 0 /\ pedido[t].detalles = <<>>) =>
            /\ resultado[t].status = "error"
            /\ db.venta = antes[t].venta
            /\ db.detalle_venta = antes[t].detalle_venta
            /\ db.auditoria = antes[t].auditoria

\* line k of the request asks for more than the stock of before the call
ExcedeStock(t, k) ==
    /\ Linea_(t, k).id_producto \in ProductoIds
    /\ Linea_(t, k).cant > antes[t].producto[Linea_(t, k).id_producto].stock

Falla(t, k) == Linea_(t, k).id_producto \notin ProductoIds \/ ExcedeStock(t, k)

ErrorDeLinea(t, k) ==
    IF ExcedeStock(t, k)
    THEN ResultadoError("stock insuficiente", Linea_(t, k).id_producto,
                        Linea_(t, k).cant,
                        antes[t].producto[Linea_(t, k).id_producto].stock)
    ELSE ResultadoError("no encontrado", Linea_(t, k).id_producto, 0, 0)

\* the call returned and no product was edited, so the stock its validation
\* read is the stock of before the call
SinEdicion(t) == pc[t] = "done" /\ ediciones = 0

\* C10 as stated: a line that asks for more than the stock makes the call
\* return the insufficient-stock error of such a line, whatever the other
\* lines are, and nothing is committed.
PedidoExcedidoDaStockInsuficiente ==
    \A t \in Sesiones :
        (SinEdicion(t) /\ \E k \in 1..NumLineas(t) : ExcedeStock(t, k)) =>
            /\ db = antes[t]
            /\ \E k \in 1..NumLineas(t) :
                  ExcedeStock(t, k) /\ resultado[t] = ErrorDeLinea(t, k)

\* C10 amended: a line that asks for more than the stock makes the call
\* return the error of the first failing line of the request (product not
\* found, or insufficient stock with product, requested and available), and
\* nothing is committed.
PedidoExcedidoRechazadoPorPrimeraFalla ==
    \A t \in Sesiones :
        (SinEdicion(t) /\ \E k \in 1..NumLineas(t) : ExcedeStock(t, k)) =>
            LET k0 == CHOOSE k \in 1..NumLineas(t) :
                         Falla(t, k) /\ \A j \in 1..(k - 1) : ~Falla(t, j)
            IN /\ db = antes[t]
               /\ resultado[t] = ErrorDeLinea(t, k0)

\* a two-line order whose first line is valid and whose second asks for too
\* much was rejected for its second line
TestigoPedidoExcedido ==
    \E t \in Sesiones :
        /\ SinEdicion(t)
        /\ NumLineas(t) = 2
        /\ ~Falla(t, 1)
        /\ ExcedeStock(t, 2)
        /\ resultado[t] = ErrorDeLinea(t, 2)

Falta(t, k) == Linea_(t, k).id_producto \notin ProductoIds

\* C11 as stated: a line that references a missing product makes the call
\* return the product-not-found error naming the product of such a line,
\* whatever the other lines are, and no Venta is created.
ProductoFaltanteDaNoEncontrado ==
    \A t \in Sesiones :
        (SinEdicion(t) /\ \E k \in 1..NumLineas(t) : Falta(t, k)) =>
            /\ db.venta = antes[t].venta
            /\ \E k \in 1..NumLineas(t) :
                  Falta(t, k) /\ resultado[t] = ErrorDeLinea(t, k)

\* C11 amended: a line that references a missing product makes the call
\* return status 'error' and create no Venta (nothing is committed); the
\* error is that of the first failing line of the request, which names the
\* missing product when that line is the one that references it.
ProductoFaltanteRechazadoPorPrimeraFalla ==
    \A t \in Sesiones :
        (SinEdicion(t) /\ \E k \in 1..NumLineas(t) : Falta(t, k)) =>
            LET k0 == CHOOSE k \in 1..NumLineas(t) :
                         Falla(t, k) /\ \A j \in 1..(k - 1) : ~Falla(t, j)
            IN /\ resultado[t].status = "error"
               /\ db.venta = antes[t].venta
               /\ db = antes[t]
               /\ resultado[t] = ErrorDeLinea(t, k0)
               /\ Falta(t, k0) =>
                      /\ resultado[t].mensaje = "no encontrado"
                      /\ resultado[t].id_producto = Linea_(t, k0).id_producto

\* a two-line order whose first line is valid and whose second references a
\* missing product was rejected naming that product
TestigoProductoFaltante ==
    \E t \in Sesiones :
        /\ SinEdicion(t)
        /\ NumLineas(t) = 2
        /\ ~Falla(t, 1)
        /\ Falta(t, 2)
        /\ resultado[t] = ErrorDeLinea(t, 2)
        /\ resultado[t].id_producto = Linea_(t, 2).id_producto

\* C12: every call returns a result with status 'success' or 'error'; an
\* 'error' result has venta_id 0 and total_venta 0; a 'success' result has
\* the id of the Venta this call committed as venta_id and that Venta's
\* total as total_venta.
ResultadoSegunContrato ==
    \A t \in Sesiones :
        pc[t] = "done" =>
            /\ resultado[t].status \in {"success", "error"}
            /\ resultado[t].status = "error" =>
                   resultado[t].venta_id = 0 /\ resultado[t].total_venta = 0
            /\ resultado[t].status = "success" =>
                   \E v \in db.venta \ antes[t].venta :
                       /\ v.id_venta = resultado[t].venta_id
                       /\ v.total = resultado[t].total_venta

\* C13: step 5 applies the decrement of a line only when the committed
\* stock of its product, at that moment, is at least the quantity of the
\* line; when another transaction has lowered the stock since validation the
\* decrement is not applied (the call ends with an error instead).
DecrementoSoloConStock ==
    [][\A t \in Sesiones :
          (/\ pc[t] = "stock"
           /\ pc'[t] # "done"
           /\ sesion'[t] # sesion[t]) =>
              db.producto[Linea_(t, idx[t]).id_producto].stock
                  >= Linea_(t, idx[t]).cant]_vars

\* rows added to the committed tables since the call of session t started
DetallesNuevos(t) ==
    SubSeq(db.detalle_venta, Len(antes[t].detalle_venta) + 1,
           Len(db.detalle_venta))

AuditoriasNuevas(t) ==
    SubSeq(db.auditoria, Len(antes[t].auditoria) + 1, Len(db.auditoria))

\* the distinct products a request asks a positive quantity of
ProductosPedidos(t) ==
    {Linea_(t, k).id_producto :
        k \in {j \in 1..NumLineas(t) : Linea_(t, j).cant > 0}}

\* C14: a finished call has either created nothing, or exactly one Venta,
\* exactly N DetalleVenta rows where N is the number of distinct products
\* with positive quantity in the request, and at least one Auditoria row.
NadaOVentaCompleta ==
    \A t \in Sesiones :
        SinEdicion(t) =>
            \/ db = antes[t]
            \/ /\ Cardinality(db.venta \ antes[t].venta) = 1
               /\ Len(DetallesNuevos(t)) = Cardinality(ProductosPedidos(t))
               /\ Len(AuditoriasNuevas(t)) >= 1

\* the audit rows a step appends to the committed log
AuditoriasDelPaso ==
    SubSeq(db'.auditoria, Len(db.auditoria) + 1, Len(db'.auditoria))

FilasDe(rows, tabla, accion, id) ==
    {k \in 1..Len(rows) : /\ rows[k].tabla = tabla
                          /\ rows[k].accion = accion
                          /\ rows[k].id_registro = id}

LineasDe(t, p) ==
    Cardinality({k \in 1..NumLineas(t) : Linea_(t, k).id_producto = p})

\* C15 as stated: the commit of a successful call leaves the audit log
\* with exactly one row more than before, listener rows included.
ExitoAgregaUnaAuditoria ==
    [][\A t \in Sesiones :
          (Retorna(t) /\ resultado'[t].status = "success") =>
              Len(db'.auditoria) = Len(db.auditoria) + 1]_vars

\* C15 amended: the commit of a successful call appends exactly one row
\* ('Venta', 'INSERT', id of the new Venta) and, written by the Producto
\* update listener, at least one row ('Producto', 'UPDATE', id of the
\* product) for every product of the request and at most one per line of
\* that product; it appends nothing else.
ExitoAgregaAuditoriaDeVentaYDeProductos ==
    [][\A t \in Sesiones :
          (Retorna(t) /\ resultado'[t].status = "success") =>
              LET rows == AuditoriasDelPaso
                  deVenta == FilasDe(rows, "Venta", "INSERT",
                                     resultado'[t].venta_id)
                  deProducto(p) == FilasDe(rows, "Producto", "UPDATE", p)
              IN /\ Cardinality(deVenta) = 1
                 /\ \A p \in ProductoIds :
                       /\ LineasDe(t, p) > 0 =>
                              Cardinality(deProducto(p)) >= 1
                       /\ Cardinality(deProducto(p)) <= LineasDe(t, p)
                 /\ \A k \in 1..Len(rows) :
                       /\ rows[k].usuario_sql = "system"
                       /\ \/ k \in deVenta
                          \/ \E p \in ProductoIds : k \in deProducto(p)]_vars

\* a sale of two different products was committed with three audit rows:
\* one for the sale and one for each product
TestigoAuditoriaDeVentaYDeProductos ==
    \E t \in Sesiones :
        /\ SinEdicion(t)
        /\ resultado[t].status = "success"
        /\ NumLineas(t) = 2
        /\ Linea_(t, 1).id_producto # Linea_(t, 2).id_producto
        /\ Len(AuditoriasNuevas(t)) = 3
        /\ db.venta # antes[t].venta

\* the message nueva_venta flashes to the user for a result
MensajeAlUsuario(res) == res.mensaje

\* C19: two calls that failed with an exception of the persistence layer
\* show the user the same message, whatever the exceptions were.
MensajeDeFalloUniforme ==
    \A t, u \in Sesiones :
        (/\ pc[t] = "done" /\ resultado[t].mensaje \in MensajesExcepcion
         /\ pc[u] = "done" /\ resultado[u].mensaje \in MensajesExcepcion) =>
            MensajeAlUsuario(resultado[t]) = MensajeAlUsuario(resultado[u])

\* C16: in every committed state each Venta has exactly one Auditoria row
\* ('Venta', 'INSERT', its id_venta), and every Auditoria row of table
\* 'Venta' belongs to a committed Venta.
VentaConSuAuditoria ==
    /\ \A v \in db.venta :
          Cardinality(FilasDe(db.auditoria, "Venta", "INSERT", v.id_venta)) = 1
    /\ \A k \in 1..Len(db.auditoria) :
          db.auditoria[k].tabla = "Venta" =>
              /\ db.auditoria[k].accion = "INSERT"
              /\ \E v \in db.venta : v.id_venta = db.auditoria[k].id_registro

\* one sale was committed and the other, whose header had drawn an id, was
\* rolled back
TestigoVentaConSuAuditoria ==
    /\ seq_venta = 2
    /\ Cardinality(db.venta) = 1
    /\ \A t \in Sesiones : pc[t] = "done"
    /\ \E t \in Sesiones : resultado[t].mensaje \in MensajesExcepcion
    /\ \E t \in Sesiones :
          /\ resultado[t].status = "success"
          /\ NumLineas(t) > 0

\* the DetalleVenta rows a step appends to the committed table
DetallesDelPaso ==
    SubSeq(db'.detalle_venta, Len(db.detalle_venta) + 1,
           Len(db'.detalle_venta))

\* C17: the committed tables, which is what another transaction reads,
\* change only in the step in which a successful call commits, and that one
\* step shows the Venta with its final total, one DetalleVenta per line, the
\* stock updates of its products and its audit row; no committed row ever
\* refers to a Venta that is not committed.
VentaVisibleSoloCompleta ==
    [][/\ db' # db =>
             \E t \in Sesiones :
                 /\ Retorna(t)
                 /\ resultado'[t].status = "success"
                 /\ \E v \in db'.venta :
                       /\ db'.venta = db.venta \cup {v}
                       /\ v \notin db.venta
                       /\ v.id_venta = resultado'[t].venta_id
                       /\ v.total = Numeric2(resultado'[t].total_venta)
                 /\ Len(DetallesDelPaso) = NumLineas(t)
                 /\ \A k \in 1..NumLineas(t) :
                       /\ DetallesDelPaso[k].id_venta = resultado'[t].venta_id
                       /\ DetallesDelPaso[k].id_producto
                              = Linea_(t, k).id_producto
                       /\ DetallesDelPaso[k].cantidad = Linea_(t, k).cant
                 /\ FilasDe(AuditoriasDelPaso, "Venta", "INSERT",
                            resultado'[t].venta_id) # {}
                 /\ \A p \in ProductoIds :
                       IF LineasDe(t, p) > 0
                       THEN FilasDe(AuditoriasDelPaso, "Producto", "UPDATE", p)
                                # {}
                       ELSE db'.producto[p] = db.producto[p]
       /\ \A k \in 1..Len(db'.detalle_venta) :
             \E v \in db'.venta : v.id_venta = db'.detalle_venta[k].id_venta
       /\ \A k \in 1..Len(db'.auditoria) :
             db'.auditoria[k].tabla = "Venta" =>
                 \E v \in db'.venta :
                     v.id_venta = db'.auditoria[k].id_registro]_vars

\* one call has committed a two-line sale while the other, between its
\* header and its commit, has changed stock in its session: nothing of the
\* second is in the committed tables
TestigoVentaVisibleSoloCompleta ==
    \E t, u \in Sesiones :
        /\ pc[t] = "done"
        /\ resultado[t].status = "success"
        /\ NumLineas(t) = 2
        /\ pc[u] \in {"auditoria", "commit"}
        /\ NumLineas(u) > 0
        /\ \A v \in db.venta : v.id_venta # locales[u].id_venta
        /\ Cardinality(db.venta) = 1

\* C18: whatever the quantities of the request, zero and negative ones
\* included, every committed DetalleVenta row has cantidad >= 1 and no
\* product has more stock than before the sales.
CantidadPositivaYStockNoCrece ==
    /\ \A k \in 1..Len(db.detalle_venta) : db.detalle_venta[k].cantidad >= 1
    /\ \A p \in ProductoIds :
          db.producto[p].stock <= TablasIniciales.producto[p].stock

\* the permission table as the claim states it
TablaPermisos ==
    ({"admin"} \X {"crear", "leer", "actualizar", "eliminar", "ventas",
                   "reportes"})
    \cup ({"vendedor"} \X {"leer", "ventas", "actualizar_cliente"})
    \cup ({"consulta"} \X {"leer", "reportes"})

\* C20: every tiene_permiso call returns a boolean that depends on (rol,
\* accion) only: TRUE exactly when the pair is in the table, hence FALSE for
\* every accion when the role is not admin, vendedor or consulta.
PermisoSegunTabla ==
    \A k \in 1..Len(consultas) :
        /\ consultas[k].permitido \in BOOLEAN
        /\ consultas[k].permitido
               = (<<usuario_rol, consultas[k].accion>> \in TablaPermisos)
        /\ usuario_rol \notin {"admin", "vendedor", "consulta"} =>
               consultas[k].permitido = FALSE
        /\ \A j \in 1..Len(consultas) :
               consultas[j].accion = consultas[k].accion =>
                   consultas[j].permitido = consultas[k].permitido

\* a user with a role outside the table asked for 'leer' and for a name
\* that is no action, and was refused both
TestigoPermisoRolDesconocido ==
    /\ usuario_rol = "supervisor"
    /\ consultas = <<[accion |-> "leer", permitido |-> FALSE],
                     [accion |-> "", permitido |-> FALSE]>>

\* cantidad over the committed DetalleVenta rows of product p
CantidadVendida(p) ==
    SumSeq([k \in 1..Len(db.detalle_venta) |->
               IF db.detalle_venta[k].id_producto = p
               THEN db.detalle_venta[k].cantidad ELSE 0])

\* C25: in every committed state reached by registrar_venta calls alone,
\* for each product the initial stock minus the current stock is the sum of
\* cantidad over the committed DetalleVenta rows of the product.
StockConservado ==
    \A p \in ProductoIds :
        TablasIniciales.producto[p].stock - db.producto[p].stock
            = CantidadVendida(p)

\* C29: the usuario_sql of the audit row of a committed Venta is the
\* username of the seller (id_usuario) the call was given.
AuditoriaDeVentaNombraAlVendedor ==
    \A k \in 1..Len(db.auditoria) :
        (db.auditoria[k].tabla = "Venta" /\ db.auditoria[k].accion = "INSERT")
            => \A v \in db.venta :
                   v.id_venta = db.auditoria[k].id_registro =>
                       db.auditoria[k].usuario_sql
                           = Usuarios[v.id_usuario].username

\* C21: the audit log is append-only: every step of the application
\* (login, logout, customer and product create, edit and delete, sale
\* registration) leaves the committed Auditoria rows as they were, in
\* place, and at most adds rows after them.
AuditoriaSoloCrece ==
    [][/\ Len(db'.auditoria) >= Len(db.auditoria)
       /\ SubSeq(db'.auditoria, 1, Len(db.auditoria)) = db.auditoria]_vars

\* the login of a seller and the sale that followed it have added their
\* rows to the log
TestigoAuditoriaSoloCrece ==
    /\ Len(db.auditoria) >= 4
    /\ db.auditoria[2] = AuditoriaUsuario("LOGIN", 2)
    /\ \E k \in 3..Len(db.auditoria) : db.auditoria[k].tabla = "Venta"

\* thread t answers a request to the route 'nombre' in this step
Responde(t, nombre) ==
    /\ ruta'[t].nombre = nombre
    /\ ruta'[t].fase = "none"
    /\ \/ ruta[t].fase # "none"
       \/ peticiones'[t] # peticiones[t]

\* C22: a step that deletes a customer is taken with no committed Venta of
\* that customer, a step that deletes a product with no committed
\* DetalleVenta of that product, whatever other requests run meanwhile;
\* a delete request that ends otherwise leaves the tables unchanged.
BorradoSoloSinReferencias ==
    [][/\ \A c \in ClienteUniverso :
             (ClienteExiste(c) /\ db'.cliente[c].estado = "borrado")
                 => VentasDeCliente(c) = {}
       /\ \A p \in ProductoIds :
             (Existe(p) /\ db'.producto[p].estado = "borrado")
                 => DetallesDeProducto(p) = {}
       /\ \A t \in Sesiones :
             (/\ Responde(t, "eliminar_cliente")
                  \/ Responde(t, "eliminar_producto")
              /\ respuesta'[t] # "ok") => db' = db]_vars

\* C23: the dni stored for a customer never changes while the customer
\* exists, whatever requests are served.
DniInmutable ==
    [][\A c \in ClienteUniverso :
          (ClienteExiste(c) /\ db'.cliente[c].estado = "vivo")
              => db'.cliente[c].dni = db.cliente[c].dni]_vars

\* C24: no two customers have the same dni, and a nuevo_cliente or
\* editar_cliente request whose dni another customer holds when it is
\* answered is refused and leaves the tables unchanged, also when two
\* requests with one dni are served at the same time.
DniUnicoYRechazado ==
    [][/\ \A c, o \in ClienteUniverso :
             (/\ c # o
              /\ db'.cliente[c].estado = "vivo"
              /\ db'.cliente[o].estado = "vivo")
                 => db'.cliente[c].dni # db'.cliente[o].dni
       /\ \A t \in Sesiones :
             (/\ Responde(t, "nuevo_cliente")
                  \/ Responde(t, "editar_cliente")
              /\ DniDuplicado(ruta'[t].dni, ruta'[t].id))
                 => /\ respuesta'[t] \in {"rechazado", "500"}
                    /\ db' = db]_vars

\* two nuevo_cliente requests with one dni passed the check of line 157
\* together: one committed, the commit of the other was refused
TestigoDniUnicoYRechazado ==
    \E t, u \in Sesiones :
        /\ ruta[t].nombre = "nuevo_cliente" /\ respuesta[t] = "500"
        /\ ruta[u].nombre = "nuevo_cliente" /\ respuesta[u] = "ok"
        /\ ruta[u].dni = ruta[t].dni
        /\ Cardinality({c \in ClienteUniverso : ClienteExiste(c)}) = 2

\* the accion each protected view is decorated with
AccionDeRuta ==
    [nombre \in {"nuevo_cliente", "editar_cliente", "eliminar_cliente",
                 "nuevo_producto", "editar_producto", "eliminar_producto",
                 "nueva_venta"} |->
        IF nombre \in {"nuevo_cliente", "nuevo_producto"} THEN "crear"
        ELSE IF nombre \in {"editar_cliente", "editar_producto"}
             THEN "actualizar"
             ELSE IF nombre = "nueva_venta" THEN "ventas" ELSE "eliminar"]

\* thread t receives a request in this step
Recibe(t) == peticiones'[t] # peticiones[t]

\* C26: a request to a view decorated with requiere_permiso(accion) gets
\* into the body of the view exactly when a user is logged in and the
\* permission table gives accion to the role of that user; otherwise it is
\* redirected and nothing is written. registrar_venta is entered only for
\* a user whose role is admin or vendedor.
RutaSoloConPermiso ==
    [][\A t \in Sesiones :
          /\ (Recibe(t) /\ ruta'[t].nombre \in DOMAIN AccionDeRuta) =>
                IF /\ actual[t] # 0
                   /\ <<Usuarios[actual[t]].rol,
                        AccionDeRuta[ruta'[t].nombre]>> \in TablaPermisos
                THEN respuesta'[t] \notin {"login", "index"}
                ELSE /\ respuesta'[t] \in {"login", "index"}
                     /\ ruta'[t].fase = "none"
                     /\ db' = db /\ pc' = pc /\ sesion' = sesion
          /\ (pc[t] = "idle" /\ pc'[t] # "idle") =>
                /\ actual[t] # 0
                /\ Usuarios[actual[t]].rol \in {"admin", "vendedor"}]_vars

\* the sale form of a logged-in user of role consulta was turned away, and
\* the log holds nothing but the two LOGIN rows
TestigoRutaSoloConPermiso ==
    /\ actual["s1"] = 4
    /\ ruta["s1"].nombre = "nueva_venta"
    /\ respuesta["s1"] = "index"
    /\ Len(db.auditoria) = 2

\* C27: a request of a logged-in seller (role vendedor) to editar_cliente
\* is executed, and its requests to the product create, edit and delete
\* views are refused.
VendedorEditaClientes ==
    [][\A t \in Sesiones :
          (/\ Recibe(t)
           /\ actual[t] # 0
           /\ Usuarios[actual[t]].rol = "vendedor") =>
              /\ ruta'[t].nombre = "editar_cliente" =>
                     respuesta'[t] # "index"
              /\ ruta'[t].nombre \in {"nuevo_producto", "editar_producto",
                                      "eliminar_producto"} =>
                     respuesta'[t] = "index"]_vars

\* the submitted lines whose quantity is positive, as lines of a request
RECURSIVE LineasPositivas(_)
LineasPositivas(lineas) ==
    IF lineas = <<>> THEN <<>>
    ELSE IF Head(lineas).cantidad <= 0 THEN LineasPositivas(Tail(lineas))
         ELSE <<[id_producto |-> Head(lineas).id_producto,
                 cant |-> Head(lineas).cantidad]>>
              \o LineasPositivas(Tail(lineas))

\* C28: when the body of nueva_venta runs, it calls registrar_venta with
\* exactly the submitted lines whose quantity is positive, in their order,
\* a line of a product that does not exist included, and it does not call
\* registrar_venta when no submitted line has a positive quantity.
NuevaVentaFiltraSoloCantidades ==
    [][\A t \in Sesiones :
          (/\ Recibe(t)
           /\ ruta'[t].nombre = "nueva_venta"
           /\ respuesta'[t] \notin {"login", "index"}) =>
              IF LineasPositivas(ruta'[t].lineas) = <<>>
              THEN pc'[t] = pc[t]
              ELSE /\ pc'[t] \notin {"idle", "done"}
                   /\ [k \in 1..Len(pedido'[t].detalles) |->
                          [id_producto |->
                               pedido'[t].detalles[k].id_producto,
                           cant |-> pedido'[t].detalles[k].cant]]
                          = LineasPositivas(ruta'[t].lineas)]_vars

\* C30: every committed Venta has an id_cliente and an id_usuario that are
\* the ids of an existing Cliente and of an existing Usuario.
VentaConClienteYVendedor ==
    \A v \in db.venta :
        /\ ClienteExiste(v.id_cliente)
        /\ v.id_usuario \in DOMAIN Usuarios

\* the Auditoria rows a step commits
FilasCommitidas ==
    {db'.auditoria[k] : k \in (Len(db.auditoria) + 1)..Len(db'.auditoria)}

\* C31: every Auditoria row with accion 'INSERT' is committed with the id
\* of the row created in the same commit as its id_registro: the new Venta
\* for a sale, the new Producto for the insert listener, the new Cliente
\* for nuevo_cliente.
AuditoriaInsertConIdDelRegistro ==
    [][\A fila \in FilasCommitidas :
          fila.accion = "INSERT" =>
              /\ fila.tabla = "Venta" =>
                     \E v \in db'.venta \ db.venta :
                         v.id_venta = fila.id_registro
              /\ fila.tabla = "Producto" =>
                     /\ fila.id_registro \in ProductoIds
                     /\ ~Existe(fila.id_registro)
                     /\ db'.producto[fila.id_registro].estado = "vivo"
              /\ fila.tabla = "Cliente" =>
                     /\ fila.id_registro \in ClienteUniverso
                     /\ ~ClienteExiste(fila.id_registro)
                     /\ db'.cliente[fila.id_registro].estado = "vivo"]_vars

====
